---- MODULE Spec2Model ----
(***************************************************************************)
(* Model of the eco-friendly navigation backend (src/backend/main.py):     *)
(* the module-level app_state, the lifespan / initialize_system start-up   *)
(* sequence and the five request handlers.  The components imported from   *)
(* crime_analyzer, osm_analyzer, weight_calibrator, graph_builder and      *)
(* route_calculator are not part of the sources; their outcomes are drawn  *)
(* from the outcomes their contracts allow.                                *)
(***************************************************************************)
EXTENDS Integers, Sequences, FiniteSets, TLC

VARIABLES
    app_state,  \* the global dictionary of main.py:49-58
    env,        \* external conditions of this process: data files, component outcomes
    pc,         \* position of the process in its lifecycle / in initialize_system
    resp,       \* the response being sent (NoResponse when none is)
    calls,      \* the component calls made to produce that response
    log,        \* graph variants that logger.warning reported as invalid
    runs,       \* number of times initialize_system has returned
    first_run,  \* readiness observed after the first run of initialize_system
    search,     \* the route calculator's graph, the route asked for, the results
    variants    \* the graph builder's edge and its cost in each variant built so far

vars == <<app_state, env, pc, resp, calls, log, runs, first_run, search, variants>>

(* ------------------------------ bounds -------------------------------- *)

\* longest explicit route_types list of a compare request
MaxTypes == 2
\* largest value of time.time() - startup_start, in abstract ticks
MaxElapsed == 2
\* how often the lifespan may be entered on the same module state
MaxRuns == 2

(* ------------------------------ values -------------------------------- *)

None == "None"
Set == "set"

RouteTypes == {"fastest", "safe", "bike", "safe_bike"}
Algorithms == {"dijkstra", "astar"}

\* valid_types of validate_route_type, in list order
valid_types == <<"fastest", "safe", "bike", "safe_bike">>
\* valid_algorithms of validate_algorithm
valid_algorithms == <<"dijkstra", "astar">>

Range(s) == {s[i] : i \in DOMAIN s}

\* A float: either NaN or a number (whole degrees are enough for the range checks).
Float(n) == [nan |-> FALSE, v |-> n]
NaN == [nan |-> TRUE, v |-> 0]
\* Python's a <= b on floats: false as soon as one side is NaN
FloatLe(a, b) == ~a.nan /\ ~b.nan /\ a.v <= b.v

Lats == {Float(-91), Float(-90), Float(90), Float(91), NaN}
Lons == {Float(-181), Float(-180), Float(180), Float(181), NaN}

(* --------------------------- initial state ---------------------------- *)

app_state_initial ==
    [initialized |-> FALSE,
     crime_analyzer |-> None,
     osm_analyzer |-> None,
     graph_builder |-> None,
     route_calculator |-> None,
     calibrated_weights |-> None,
     initialization_time |-> 0,
     startup_errors |-> <<>>]

\* What the world outside main.py does during start-up.  The try block of
\* initialize_system stops at its first failure, so an environment is named by
\* the first step that fails in it (or "none") and by what validate_graphs finds.
Faults ==
    {"none", "indy_missing", "wl_missing", "crime_raise", "osm_raise",
     "calibration_raise", "network_none", "network_empty", "build_raise",
     "validate_raise", "rc_init_false", "rc_init_raise"}

Envs == [fault : Faults, invalid : {{}, {"safe"}, RouteTypes}]

NoRequest == [path |-> "none"]

\* No road graph is loaded into the model: the handlers' view of the calculator.
NoSearch == [loaded |-> FALSE]

\* No edge is being weighted: the graph builder is not at work.
NoVariants == [building |-> FALSE]

NoResponse == [handler |-> "none", status |-> 0, body |-> None, request |-> NoRequest]

Init ==
    /\ app_state = app_state_initial
    /\ env \in Envs
    /\ pc = "import"
    /\ resp = NoResponse
    /\ calls = <<>>
    /\ log = {}
    /\ runs = 0
    /\ first_run = None
    /\ search = NoSearch
    /\ variants = NoVariants

(* ------------------------- initialize_system -------------------------- *)

\* health_check's status expression (main.py:287)
HealthStatus(st) ==
    IF st.initialized /\ st.startup_errors = <<>> THEN "healthy" ELSE "unhealthy"

\* What a client can observe of readiness: the flag, the errors, the status.
Readiness(st) ==
    [initialized |-> st.initialized,
     errors |-> st.startup_errors,
     status |-> HealthStatus(st)]

\* A mutant of the except clause: the exception is re-raised out of the lifespan.
ExceptReraise(e) ==
    /\ app_state' = [app_state EXCEPT !.startup_errors = Append(@, e),
                                      !.initialized = FALSE]
    /\ pc' = "crashed"
    /\ UNCHANGED <<env, resp, calls, log, runs, first_run, search, variants>>

\* except Exception as e (main.py:229-236): record the message, clear the flag,
\* do not re-raise.
ExceptHandler(e) ==
    /\ app_state' = [app_state EXCEPT !.startup_errors = Append(@, e),
                                      !.initialized = FALSE]
    /\ pc' = "returned"
    /\ UNCHANGED <<env, resp, calls, log, runs, first_run, search, variants>>

\* A step of the try block that stores nothing.
Goto(next) ==
    /\ pc' = next
    /\ UNCHANGED <<app_state, env, resp, calls, log, runs, first_run, search, variants>>

\* A step of the try block that stores a component in its slot.
Store(slot, next) ==
    /\ app_state' = [app_state EXCEPT ![slot] = Set]
    /\ pc' = next
    /\ UNCHANGED <<env, resp, calls, log, runs, first_run, search, variants>>

\* lifespan start-up: await initialize_system() (main.py:243, 150-158)
LifespanStartup ==
    /\ pc = "import"
    /\ Goto("check_files")

\* main.py:160-167
CheckFiles ==
    /\ pc = "check_files"
    /\ IF env.fault = "indy_missing" THEN ExceptHandler("indy_crime_data_not_found")
       ELSE IF env.fault = "wl_missing" THEN ExceptHandler("wl_crime_data_not_found")
       ELSE Goto("crime")

\* main.py:169-174
InitCrimeAnalyzer ==
    /\ pc = "crime"
    /\ IF env.fault = "crime_raise" THEN ExceptHandler("crime_analysis_error")
       ELSE Store("crime_analyzer", "osm")

\* A mutant of the OSM step: the analyzer is stored under the wrong key.
InitOSMAnalyzerWrongSlot ==
    /\ pc = "osm"
    /\ IF env.fault = "osm_raise" THEN ExceptHandler("osm_analysis_error")
       ELSE Store("graph_builder", "calibration")

\* main.py:176-181
InitOSMAnalyzer ==
    /\ pc = "osm"
    /\ IF env.fault = "osm_raise" THEN ExceptHandler("osm_analysis_error")
       ELSE Store("osm_analyzer", "calibration")

\* main.py:183-188
RunCalibration ==
    /\ pc = "calibration"
    /\ IF env.fault = "calibration_raise" THEN ExceptHandler("calibration_error")
       ELSE Store("calibrated_weights", "graph")

\* main.py:190-206
BuildGraphs ==
    /\ pc = "graph"
    /\ IF env.fault \in {"network_none", "network_empty"} THEN ExceptHandler("no_valid_road_network")
       ELSE IF env.fault = "build_raise" THEN ExceptHandler("graph_build_error")
       ELSE Store("graph_builder", "validate")

\* A mutant of the validation step: an invalid variant aborts initialization.
ValidateGraphsStrict ==
    /\ pc = "validate"
    /\ IF env.fault = "validate_raise" THEN ExceptHandler("graph_validation_error")
       ELSE IF env.invalid # {} THEN ExceptHandler("graphs_failed_validation")
       ELSE Goto("route_calculator")

\* main.py:208-212: invalid variants are logged, nothing else
ValidateGraphs ==
    /\ pc = "validate"
    /\ IF env.fault = "validate_raise" THEN ExceptHandler("graph_validation_error")
       ELSE /\ log' = IF env.invalid # {} THEN log \cup env.invalid ELSE log
            /\ pc' = "route_calculator"
            /\ UNCHANGED <<app_state, env, resp, calls, runs, first_run, search, variants>>

\* A mutant of the route-calculator step: the slot is stored before the result
\* of initialize() is looked at.
InitRouteCalculatorEager ==
    /\ pc = "route_calculator"
    /\ IF env.fault = "rc_init_raise" THEN ExceptHandler("route_calculator_error")
       ELSE IF env.fault = "rc_init_false"
       THEN /\ app_state' = [app_state EXCEPT !.route_calculator = Set,
                                              !.startup_errors =
                                                  Append(@, "route_calculator_init_failed"),
                                              !.initialized = FALSE]
            /\ pc' = "returned"
            /\ UNCHANGED <<env, resp, calls, log, runs, first_run, search, variants>>
       ELSE Store("route_calculator", "mark")

\* main.py:214-221
InitRouteCalculator ==
    /\ pc = "route_calculator"
    /\ IF env.fault = "rc_init_raise" THEN ExceptHandler("route_calculator_error")
       ELSE IF env.fault = "rc_init_false" THEN ExceptHandler("route_calculator_init_failed")
       ELSE Store("route_calculator", "mark")

\* A mutant of the last step: the elapsed time is stored, the flag is not.
MarkInitializedTimeOnly ==
    /\ pc = "mark"
    /\ \E t \in 1..MaxElapsed :
          app_state' = [app_state EXCEPT !.initialization_time = t]
    /\ pc' = "returned"
    /\ UNCHANGED <<env, resp, calls, log, runs, first_run, search, variants>>

\* main.py:223-227
MarkInitialized ==
    /\ pc = "mark"
    /\ \E t \in 1..MaxElapsed :
          app_state' = [app_state EXCEPT !.initialized = TRUE,
                                         !.initialization_time = t]
    /\ pc' = "returned"
    /\ UNCHANGED <<env, resp, calls, log, runs, first_run, search, variants>>

\* initialize_system has returned; the lifespan yields and the server serves
\* (main.py:243-244)
LifespanYield ==
    /\ pc = "returned"
    /\ pc' = "serving"
    /\ runs' = runs + 1
    /\ first_run' = IF runs = 0 THEN Readiness(app_state) ELSE first_run
    /\ UNCHANGED <<app_state, env, resp, calls, log, search, variants>>

\* lifespan shutdown (main.py:245-246), once no response is outstanding
LifespanShutdown ==
    /\ pc = "serving"
    /\ resp.handler = "none"
    /\ pc' = "stopped"
    /\ UNCHANGED <<app_state, env, resp, calls, log, runs, first_run, search, variants>>

\* The lifespan is entered again on the same module state (the application
\* object is started a second time in the same interpreter).
LifespanRestart ==
    /\ pc = "stopped"
    /\ runs < MaxRuns
    /\ Goto("check_files")

initialize_system ==
    \/ CheckFiles
    \/ InitCrimeAnalyzer
    \/ InitOSMAnalyzer
    \/ RunCalibration
    \/ BuildGraphs
    \/ ValidateGraphs
    \/ InitRouteCalculator
    \/ MarkInitialized

(* ------------------------ request validation -------------------------- *)

\* RouteRequestModel.validate_latitude / RouteCompareRequestModel.validate_latitude
validate_latitude(v) == FloatLe(Float(-90), v) /\ FloatLe(v, Float(90))

\* validate_longitude of both request models
validate_longitude(v) == FloatLe(Float(-180), v) /\ FloatLe(v, Float(180))

\* RouteRequestModel.validate_route_type
validate_route_type(v) == v \in Range(valid_types)

\* RouteRequestModel.validate_algorithm
validate_algorithm(v) == v \in Range(valid_algorithms)

\* algorithm: str = 'dijkstra': the field's value when the request omits it
AlgorithmField(a) == IF a = None THEN "dijkstra" ELSE a

\* A mutant of the /route request model: the end point is not range-checked.
RouteRequestModelStartOnly(r) ==
    /\ validate_latitude(r.start_lat)
    /\ validate_longitude(r.start_lon)
    /\ validate_route_type(r.route_type)
    /\ validate_algorithm(AlgorithmField(r.algorithm))

\* RouteRequestModel: the request parses iff every validator accepts its field
RouteRequestModel(r) ==
    /\ validate_latitude(r.start_lat)
    /\ validate_latitude(r.end_lat)
    /\ validate_longitude(r.start_lon)
    /\ validate_longitude(r.end_lon)
    /\ validate_route_type(r.route_type)
    /\ validate_algorithm(AlgorithmField(r.algorithm))

\* RouteCompareRequestModel: only the coordinates have validators
RouteCompareRequestModel(r) ==
    /\ validate_latitude(r.start_lat)
    /\ validate_latitude(r.end_lat)
    /\ validate_longitude(r.start_lon)
    /\ validate_longitude(r.end_lon)

(* ------------------------- request inputs ----------------------------- *)

\* A point inside the service area; the inputs vary one coordinate at a time.
BaseCoords ==
    [start_lat |-> Float(40), start_lon |-> Float(-86),
     end_lat |-> Float(39), end_lon |-> Float(-87)]

Coords ==
    {BaseCoords}
    \cup {[BaseCoords EXCEPT !.start_lat = v] : v \in Lats}
    \cup {[BaseCoords EXCEPT !.end_lat = v] : v \in Lats}
    \cup {[BaseCoords EXCEPT !.start_lon = v] : v \in Lons}
    \cup {[BaseCoords EXCEPT !.end_lon = v] : v \in Lons}

TypeNames == RouteTypes \cup {"walk"}
AlgorithmNames == Algorithms \cup {"bfs", None}

SeqsUpTo(S, n) == UNION {[1..k -> S] : k \in 0..n}

\* route_types: Optional[List[str]] = None of a compare request: omitted, or a
\* list (duplicates allowed)
TypeLists ==
    {[given |-> FALSE, list |-> <<>>]}
    \cup {[given |-> TRUE, list |-> l] : l \in SeqsUpTo(TypeNames, MaxTypes)}

WithCoords(c, rest) == c @@ rest

RouteRequests ==
    {WithCoords(c, [route_type |-> t, algorithm |-> a]) :
        c \in Coords, t \in TypeNames, a \in AlgorithmNames}

CompareRequests ==
    {WithCoords(c, [route_types |-> l, algorithm |-> a]) :
        c \in Coords, l \in TypeLists, a \in AlgorithmNames}

(* --------------------------- route calculator -------------------------- *)

\* A RouteResult of a route that was found (its numbers are placeholders here).
RouteFound(route_type, algorithm) ==
    [route |-> <<<<40, -86>>, <<39, -87>>>>,
     distance_meters |-> 1500,
     estimated_time_minutes |-> 18,
     safety_score |-> 80,
     bike_coverage_percent |-> 50,
     route_type |-> route_type,
     algorithm_used |-> algorithm,
     calculation_time_ms |-> 1,
     node_count |-> 2,
     error_message |-> None]

\* A RouteResult carrying only an error message.
RouteError(route_type, algorithm) ==
    [route |-> <<>>,
     distance_meters |-> 0,
     estimated_time_minutes |-> 0,
     safety_score |-> 0,
     bike_coverage_percent |-> 0,
     route_type |-> route_type,
     algorithm_used |-> algorithm,
     calculation_time_ms |-> 0,
     node_count |-> 0,
     error_message |-> "route_failed"]

\* RouteCalculator.compare_routes: one entry per requested route type; the types
\* in `failing` fail, and so does every type or algorithm the calculator does
\* not know.  A failure is an entry, never an exception.
RouteCalculator_compare_routes(route_types, algorithm, failing) ==
    [t \in Range(route_types) |->
        IF t \in failing \/ t \notin RouteTypes \/ algorithm \notin Algorithms
        THEN RouteError(t, algorithm)
        ELSE RouteFound(t, algorithm)]

(* ------------------------------ handlers ------------------------------ *)

\* The request body a response answers (kept for POST /route).
Posted(path, r) == [path |-> path, json |-> r]

\* A handler's step: it answers and leaves app_state and the lifecycle alone.
Answer(handler, status, body, made, request) ==
    /\ resp' = [handler |-> handler, status |-> status, body |-> body,
                request |-> request]
    /\ calls' = made
    /\ UNCHANGED <<app_state, env, pc, log, runs, first_run, search, variants>>

\* The server takes the next request once the previous response is on its way:
\* every handler is a coroutine without an await, so handlers never overlap.
Idle == pc = "serving" /\ resp.handler = "none"

\* The response has been sent.
Deliver ==
    /\ pc = "serving"
    /\ resp.handler # "none"
    /\ resp' = NoResponse
    /\ calls' = <<>>
    /\ UNCHANGED <<app_state, env, pc, log, runs, first_run, search, variants>>

\* raise HTTPException(status_code=503, ...)
NotInitialized(handler, request) ==
    Answer(handler, 503, "System not initialized", <<>>, request)

\* A mutant of the conversion: node_count is filled from the duration.
RouteResponseModelMixed(result) ==
    [route |-> result.route,
     distance_meters |-> result.distance_meters,
     estimated_time_minutes |-> result.estimated_time_minutes,
     safety_score |-> result.safety_score,
     bike_coverage_percent |-> result.bike_coverage_percent,
     route_type |-> result.route_type,
     algorithm_used |-> result.algorithm_used,
     calculation_time_ms |-> result.calculation_time_ms,
     node_count |-> result.calculation_time_ms,
     error_message |-> result.error_message]

\* RouteResponseModel(route=result.route, ...): the ten fields, copied
RouteResponseModel(result) ==
    [route |-> result.route,
     distance_meters |-> result.distance_meters,
     estimated_time_minutes |-> result.estimated_time_minutes,
     safety_score |-> result.safety_score,
     bike_coverage_percent |-> result.bike_coverage_percent,
     route_type |-> result.route_type,
     algorithm_used |-> result.algorithm_used,
     calculation_time_ms |-> result.calculation_time_ms,
     node_count |-> result.node_count,
     error_message |-> result.error_message]

\* A mutant of /health: reporting the start-up errors also clears them.
health_check_clearing ==
    /\ Idle
    /\ resp' = [handler |-> "health_check", status |-> 200,
                body |-> [status |-> HealthStatus(app_state),
                          initialized |-> app_state.initialized,
                          graph_stats |-> None,
                          stats_error |-> FALSE,
                          errors |-> app_state.startup_errors],
                request |-> NoRequest]
    /\ calls' = <<>>
    /\ app_state' = [app_state EXCEPT !.startup_errors = <<>>,
                                      !.initialization_time = 0]
    /\ UNCHANGED <<env, pc, log, runs, first_run, search, variants>>

\* GET /health (main.py:269-295)
health_check ==
    /\ Idle
    /\ \E stats \in {"ok", "raise"} :
          LET ask == app_state.initialized /\ app_state.route_calculator # None
              body == [status |-> HealthStatus(app_state),
                       initialized |-> app_state.initialized,
                       graph_stats |-> IF ask /\ stats = "ok" THEN "stats" ELSE None,
                       stats_error |-> ask /\ stats = "raise",
                       errors |-> app_state.startup_errors]
          IN  Answer("health_check", 200, body,
                     IF ask THEN <<[method |-> "get_route_statistics"]>> ELSE <<>>,
                     NoRequest)

\* GET /modes (main.py:298-321)
get_available_modes ==
    /\ Idle
    /\ Answer("get_available_modes", 200, [modes |-> RouteTypes], <<>>, NoRequest)

\* A mutant of /stats: the readiness check is missing.
get_system_stats_unguarded ==
    /\ Idle
    /\ \E stats \in {"ok", "raise"} :
          IF stats = "raise"
          THEN Answer("get_system_stats", 500, "Error retrieving statistics",
                      <<[method |-> "get_route_statistics"]>>, NoRequest)
          ELSE Answer("get_system_stats", 200,
                      [initialized |-> app_state.initialized,
                       startup_errors |-> app_state.startup_errors,
                       initialization_time_seconds |-> app_state.initialization_time,
                       crime_analysis |-> app_state.calibrated_weights # None],
                      <<[method |-> "get_route_statistics"]>>, NoRequest)

\* GET /stats (main.py:324-357)
get_system_stats ==
    /\ Idle
    /\ \E stats \in {"ok", "raise"} :
          IF ~app_state.initialized
          THEN NotInitialized("get_system_stats", NoRequest)
          ELSE IF stats = "raise"
          THEN Answer("get_system_stats", 500, "Error retrieving statistics",
                      <<[method |-> "get_route_statistics"]>>, NoRequest)
          ELSE Answer("get_system_stats", 200,
                      [initialized |-> app_state.initialized,
                       startup_errors |-> app_state.startup_errors,
                       initialization_time_seconds |-> app_state.initialization_time,
                       crime_analysis |-> app_state.calibrated_weights # None],
                      <<[method |-> "get_route_statistics"]>>, NoRequest)

\* RouteRequest(start_lat=request.start_lat, ...) (main.py:372-379)
RouteRequest(r) ==
    [start_lat |-> r.start_lat, start_lon |-> r.start_lon,
     end_lat |-> r.end_lat, end_lon |-> r.end_lon,
     route_type |-> r.route_type, algorithm |-> AlgorithmField(r.algorithm)]

\* POST /route (main.py:360-401).  A body that RouteRequestModel rejects is
\* answered 422 by the framework and the handler does not run.
calculate_route ==
    /\ Idle
    /\ \E r \in RouteRequests :
          IF ~RouteRequestModel(r)
          THEN Answer("RouteRequestModel", 422, "validation error", <<>>, Posted("/route", r))
          ELSE IF ~app_state.initialized
          THEN NotInitialized("calculate_route", Posted("/route", r))
          ELSE \E outcome \in {"found", "error", "raise"} :
               LET internal_request == RouteRequest(r)
                   made == <<[method |-> "calculate_route", request |-> internal_request]>>
                   result == IF outcome = "found"
                             THEN RouteFound(internal_request.route_type,
                                             internal_request.algorithm)
                             ELSE RouteError(internal_request.route_type,
                                             internal_request.algorithm)
               IN  IF outcome = "raise"
                   THEN Answer("calculate_route", 500, "Route calculation failed", made,
                               Posted("/route", r))
                   ELSE Answer("calculate_route", 200, RouteResponseModel(result), made,
                               Posted("/route", r))

\* The known route types a compare request asks for: those that can succeed.
Requested(r) ==
    IF r.route_types.given THEN Range(r.route_types.list) \cap RouteTypes ELSE RouteTypes

\* The route types whose entry carries an error message.
Failed(results) == {t \in DOMAIN results : results[t].error_message # None}

\* A mutant of the conversion loop: a failed entry fails the whole request.
compare_response_abort(results) ==
    IF Failed(results) # {}
    THEN [status |-> 500, body |-> "Route comparison failed"]
    ELSE [status |-> 200,
          body |-> [t \in DOMAIN results |-> RouteResponseModel(results[t])]]

\* A mutant of the conversion loop: failed entries are left out of the answer.
compare_response_drop_failed(results) ==
    [status |-> 200,
     body |-> [t \in DOMAIN results \ Failed(results) |->
                  RouteResponseModel(results[t])]]

\* response = {}; for route_type, result in results.items(): ... (main.py:430-446)
compare_response(results) ==
    [status |-> 200,
     body |-> [t \in DOMAIN results |-> RouteResponseModel(results[t])]]

\* POST /route/compare (main.py:404-449)
compare_routes ==
    /\ Idle
    /\ \E r \in CompareRequests :
          IF ~RouteCompareRequestModel(r)
          THEN Answer("RouteCompareRequestModel", 422, "validation error", <<>>,
                      NoRequest)
          ELSE IF ~app_state.initialized
          THEN NotInitialized("compare_routes", NoRequest)
          ELSE \E failing \in SUBSET Requested(r) :
               LET route_types == IF ~r.route_types.given THEN valid_types
                                  ELSE r.route_types.list
                   algorithm == AlgorithmField(r.algorithm)
                   made == <<[method |-> "compare_routes",
                              start_lat |-> r.start_lat, start_lon |-> r.start_lon,
                              end_lat |-> r.end_lat, end_lon |-> r.end_lon,
                              route_types |-> route_types,
                              algorithm |-> algorithm]>>
                   results == RouteCalculator_compare_routes(route_types, algorithm,
                                                             failing)
                   response == compare_response(results)
               IN  Answer("compare_routes", response.status, response.body, made,
                          NoRequest)

Next ==
    \/ LifespanStartup
    \/ initialize_system
    \/ LifespanYield
    \/ LifespanShutdown
    \/ Deliver
    \/ health_check
    \/ get_available_modes
    \/ get_system_stats
    \/ calculate_route
    \/ compare_routes

Spec == Init /\ [][Next]_vars

\* The same process, where the lifespan may be entered again after a shutdown.
NextReinit == Next \/ LifespanRestart

SpecReinit == Init /\ [][NextReinit]_vars

(* --------------------- route calculator: the search -------------------- *)

\* number of nodes of the base road graph
NumNodes == 3
\* largest number of roads of the base road graph
MaxEdges == 3

\* edge costs are kept in hundredths of a time unit
CostScale == 100
\* the small positive floor no edge cost drops below
CostFloor == 1

Nodes == 1..NumNodes

Abs(x) == IF x < 0 THEN -x ELSE x

Min(S) == CHOOSE x \in S : \A y \in S : x <= y

\* RoadNode: the nodes lie on one line, node n at (n-1)^2 metres
NodeX(n) == (n - 1) * (n - 1)

\* great-circle distance between two nodes
GreatCircle(a, b) == Abs(NodeX(a) - NodeX(b))

\* An undirected road is a pair of opposing edges; it is named by its end
\* nodes in increasing order.
Road(a, b) == IF a < b THEN <<a, b>> ELSE <<b, a>>

Roads == {p \in Nodes \X Nodes : p[1] < p[2]}

\* RoadEdge attributes: base speed, normalized risk and infrastructure quality
\* (both in percent)
EdgeKinds ==
    {[speed |-> 1, risk |-> 0, quality |-> 0],
     [speed |-> 2, risk |-> 0, quality |-> 0],
     [speed |-> 2, risk |-> 100, quality |-> 100]}

\* The base graphs of the model: every choice of at most MaxEdges roads
Graphs ==
    UNION {[P -> EdgeKinds] : P \in {Q \in SUBSET Roads : Cardinality(Q) <= MaxEdges}}

\* CalibrationProfile: the two coefficients, in percent
CalibrationProfile == [risk_coefficient |-> 100, infrastructure_coefficient |-> 50]

\* length in metres of the road between two adjacent nodes
EdgeLength(a, b) == GreatCircle(a, b)

\* A mutant of the cost function: the weighted cost is stored as computed,
\* without the clamp.
WeightedCostUnclamped(length, speed, risk, quality, profile, route_type) ==
    LET base == (length * CostScale) \div speed
        risk_factor ==
            IF route_type \in {"safe", "safe_bike"}
            THEN 100 + (profile.risk_coefficient * risk) \div 100
            ELSE 100
        infra_factor ==
            IF route_type \in {"bike", "safe_bike"}
            THEN 100 - (profile.infrastructure_coefficient * quality) \div 100
            ELSE 100
    IN  (base * risk_factor * infra_factor) \div 10000

\* Graph Builder: the cost of an edge in a variant: length / speed, times
\* (1 + risk_coefficient * risk) for safe and safe_bike, times
\* (1 - infrastructure_coefficient * quality) for bike and safe_bike, and never
\* below the floor.  Risk, quality and the coefficients are in percent.
WeightedCost(length, speed, risk, quality, profile, route_type) ==
    LET base == (length * CostScale) \div speed
        risk_factor ==
            IF route_type \in {"safe", "safe_bike"}
            THEN 100 + (profile.risk_coefficient * risk) \div 100
            ELSE 100
        infra_factor ==
            IF route_type \in {"bike", "safe_bike"}
            THEN 100 - (profile.infrastructure_coefficient * quality) \div 100
            ELSE 100
        cost == (base * risk_factor * infra_factor) \div 10000
    IN  IF cost < CostFloor THEN CostFloor ELSE cost

\* the cost of the edge a -> b of a base graph in a variant
EdgeCost(graph, route_type, a, b) ==
    LET e == graph[Road(a, b)]
    IN  WeightedCost(EdgeLength(a, b), e.speed, e.risk, e.quality,
                     CalibrationProfile, route_type)

Neighbors(graph, n) == {m \in Nodes : m # n /\ Road(n, m) \in DOMAIN graph}

\* the minimum possible speed in the variant
MinSpeed(graph) ==
    IF DOMAIN graph = {} THEN 1 ELSE Min({graph[p].speed : p \in DOMAIN graph})

\* A*'s heuristic: the great-circle distance to the goal scaled by the minimum
\* possible speed in the variant; Dijkstra searches without one.
Heuristic(graph, algorithm, n, goal) ==
    IF algorithm = "astar"
    THEN (GreatCircle(n, goal) * CostScale) \div MinSpeed(graph)
    ELSE 0

RECURSIVE PathTo(_, _)
\* the path from the start to n along the parent links
PathTo(parent, n) ==
    IF parent[n] = n THEN <<n>> ELSE Append(PathTo(parent, parent[n]), n)

RECURSIVE PathCost(_, _, _)
\* the total cost of a path under a variant's edge weights
PathCost(graph, route_type, path) ==
    IF Len(path) <= 1 THEN 0
    ELSE EdgeCost(graph, route_type, path[1], path[2])
         + PathCost(graph, route_type, Tail(path))

RECURSIVE SearchLoop(_, _, _, _, _)
\* The search: pop the frontier node of least priority (accumulated cost plus
\* heuristic, ties to the smaller node id); stop when the goal is popped or the
\* frontier is empty; otherwise mark the node visited and relax its edges.
SearchLoop(graph, route_type, algorithm, goal, st) ==
    IF st.frontier = {}
    THEN [status |-> "no_route", path |-> <<>>, cost |-> 0,
          node_count |-> Cardinality(st.visited),
          error_message |-> "NoRouteFoundError"]
    ELSE LET f(n) == st.g[n] + Heuristic(graph, algorithm, n, goal)
             n == CHOOSE x \in st.frontier :
                     \A y \in st.frontier : f(x) < f(y) \/ (f(x) = f(y) /\ x <= y)
             visited == st.visited \cup {n}
             better == {m \in Neighbors(graph, n) \ visited :
                           \/ m \notin DOMAIN st.g
                           \/ st.g[n] + EdgeCost(graph, route_type, n, m) < st.g[m]}
         IN  IF n = goal
             THEN [status |-> "found", path |-> PathTo(st.parent, n),
                   cost |-> st.g[n], node_count |-> Cardinality(visited),
                   error_message |-> None]
             ELSE SearchLoop(graph, route_type, algorithm, goal,
                     [frontier |-> (st.frontier \ {n}) \cup better,
                      visited |-> visited,
                      g |-> [m \in DOMAIN st.g \cup better |->
                                IF m \in better
                                THEN st.g[n] + EdgeCost(graph, route_type, n, m)
                                ELSE st.g[m]],
                      parent |-> [m \in DOMAIN st.parent \cup better |->
                                     IF m \in better THEN n ELSE st.parent[m]]])

\* A mutant of the search: when the frontier empties, a straight line from the
\* start to the goal is returned as a best-effort route.
RouteCalculator_search_guess(graph, route_type, algorithm, start, goal) ==
    LET r == SearchLoop(graph, route_type, algorithm, goal,
                        [frontier |-> {start}, visited |-> {},
                         g |-> [m \in {start} |-> 0],
                         parent |-> [m \in {start} |-> start]])
    IN  IF r.status = "no_route"
        THEN [status |-> "found", path |-> <<start, goal>>, cost |-> 0,
              node_count |-> r.node_count, error_message |-> None]
        ELSE r

\* Route Calculator, steps 2 and 3: the search from start to goal on the
\* variant of route_type with the chosen algorithm
RouteCalculator_search(graph, route_type, algorithm, start, goal) ==
    SearchLoop(graph, route_type, algorithm, goal,
               [frontier |-> {start}, visited |-> {},
                g |-> [m \in {start} |-> 0],
                parent |-> [m \in {start} |-> start]])

NotRun == [status |-> "none"]

\* The server as it is once initialization has succeeded.
app_state_ready ==
    [initialized |-> TRUE,
     crime_analyzer |-> Set,
     osm_analyzer |-> Set,
     graph_builder |-> Set,
     route_calculator |-> Set,
     calibrated_weights |-> Set,
     initialization_time |-> 1,
     startup_errors |-> <<>>]

\* An initialized server whose route calculator holds one of the graphs, and a
\* route between two of its nodes asked for on one of the four variants.
InitSearch ==
    /\ app_state = app_state_ready
    /\ env = [fault |-> "none", invalid |-> {}]
    /\ pc = "serving"
    /\ resp = NoResponse
    /\ calls = <<>>
    /\ log = {}
    /\ runs = 1
    /\ first_run = Readiness(app_state_ready)
    /\ variants = NoVariants
    /\ \E graph \in Graphs, route_type \in RouteTypes, start \in Nodes, goal \in Nodes :
          search = [loaded |-> TRUE, graph |-> graph, route_type |-> route_type,
                    start |-> start, goal |-> goal,
                    results |-> [a \in Algorithms |-> NotRun]]

\* The route calculator runs the search of the request with one algorithm.
RunSearch ==
    /\ search.loaded
    /\ \E algorithm \in Algorithms :
          search' = [search EXCEPT !.results[algorithm] =
                        RouteCalculator_search(search.graph, search.route_type,
                                               algorithm, search.start, search.goal)]
    /\ UNCHANGED <<app_state, env, pc, resp, calls, log, runs, first_run, variants>>

NextSearch == RunSearch

SpecSearch == InitSearch /\ [][NextSearch]_vars

(* ----------------- route calculator: calculate_route ------------------ *)

\* the maximum snap distance, in metres
SnapThreshold == 1

\* the computation durations the wall clock may measure, in milliseconds
Durations == 1..MaxElapsed

\* RoadNode coordinates: node n lies at latitude 0, longitude NodeX(n)
NodeCoord(n) == <<0, NodeX(n)>>

\* projected distance from a (lat, lon) point to a node
SnapDistance(point, n) == Abs(point[1]) + Abs(point[2] - NodeX(n))

\* the nearest graph node of a point (the smaller node id on a tie)
Nearest(point) ==
    CHOOSE n \in Nodes :
        \A m \in Nodes :
            \/ SnapDistance(point, n) < SnapDistance(point, m)
            \/ SnapDistance(point, n) = SnapDistance(point, m) /\ n <= m

\* A mutant of the snapping: a node exactly at the threshold is out of coverage.
SnapStrict(point) ==
    LET n == Nearest(point)
    IN  [covered |-> SnapDistance(point, n) < SnapThreshold, node |-> n]

\* step 1, node snapping: the nearest node, out of coverage when it lies
\* beyond the threshold
Snap(point) ==
    LET n == Nearest(point)
    IN  [covered |-> SnapDistance(point, n) <= SnapThreshold, node |-> n]

RECURSIVE PathLength(_)
\* step 4: the sum of the geometric lengths along the path
PathLength(path) ==
    IF Len(path) <= 1 THEN 0
    ELSE EdgeLength(path[1], path[2]) + PathLength(Tail(path))

RECURSIVE PathTime(_, _)
\* step 4: the sum of length / speed along the path, weighting multipliers ignored
PathTime(graph, path) ==
    IF Len(path) <= 1 THEN 0
    ELSE (EdgeLength(path[1], path[2]) * CostScale) \div graph[Road(path[1], path[2])].speed
         + PathTime(graph, Tail(path))

RECURSIVE PathExposure(_, _)
\* step 4: the risk exposure aggregated along the path (length times risk)
PathExposure(graph, path) ==
    IF Len(path) <= 1 THEN 0
    ELSE EdgeLength(path[1], path[2]) * graph[Road(path[1], path[2])].risk
         + PathExposure(graph, Tail(path))

RECURSIVE PathBikeLength(_, _)
\* step 4: the length of the path's edges with qualifying infrastructure
PathBikeLength(graph, path) ==
    IF Len(path) <= 1 THEN 0
    ELSE (IF graph[Road(path[1], path[2])].quality > 0
          THEN EdgeLength(path[1], path[2]) ELSE 0)
         + PathBikeLength(graph, Tail(path))

\* A RouteResult carrying only an error message, with the duration and node
\* count recorded for it.
RouteFailure(request, error_message, node_count, elapsed) ==
    [route |-> <<>>,
     distance_meters |-> 0,
     estimated_time_minutes |-> 0,
     safety_score |-> 0,
     bike_coverage_percent |-> 0,
     route_type |-> request.route_type,
     algorithm_used |-> request.algorithm,
     calculation_time_ms |-> elapsed,
     node_count |-> node_count,
     error_message |-> error_message]

\* step 4, reduction of a found path into a RouteResult.  A path of no length
\* has no exposure (safety 100) and no qualifying share (coverage 0).
Reduce(graph, request, found, elapsed) ==
    LET path == found.path
        total == PathLength(path)
    IN  [route |-> [i \in DOMAIN path |-> NodeCoord(path[i])],
         distance_meters |-> total,
         estimated_time_minutes |-> PathTime(graph, path),
         safety_score |->
             IF total = 0 THEN 100 ELSE 100 - PathExposure(graph, path) \div total,
         bike_coverage_percent |->
             IF total = 0 THEN 0 ELSE (PathBikeLength(graph, path) * 100) \div total,
         route_type |-> request.route_type,
         algorithm_used |-> request.algorithm,
         calculation_time_ms |-> elapsed,
         node_count |-> found.node_count,
         error_message |-> None]

\* RouteCalculator.calculate_route: snapping, search, reduction, and the
\* wall-clock duration `elapsed` attached to the result.
RouteCalculator_calculate_route(graph, request, elapsed) ==
    LET start == Snap(<<request.start_lat.v, request.start_lon.v>>)
        goal == Snap(<<request.end_lat.v, request.end_lon.v>>)
    IN  IF ~start.covered \/ ~goal.covered
        THEN RouteFailure(request, "OutOfCoverageError", 0, elapsed)
        ELSE LET found == RouteCalculator_search(graph, request.route_type,
                                                 request.algorithm, start.node, goal.node)
             IN  IF found.status = "found"
                 THEN Reduce(graph, request, found, elapsed)
                 ELSE RouteFailure(request, found.error_message, found.node_count, elapsed)

\* The points a client asks about: on the first node, one metre off the last
\* node, and beyond the threshold from every node.
Points == {NodeCoord(1), <<1, NodeX(NumNodes)>>,
           <<0, NodeX(NumNodes) + SnapThreshold + 1>>}

\* the bodies of POST /route between those points
PointRequests ==
    {[start_lat |-> Float(p[1]), start_lon |-> Float(p[2]),
      end_lat |-> Float(q[1]), end_lon |-> Float(q[2]),
      route_type |-> t, algorithm |-> a] :
        p \in Points, q \in Points, t \in RouteTypes, a \in Algorithms}

\* the roads of a ring through all the nodes
RingRoads == {Road(n, n + 1) : n \in 1..(NumNodes - 1)} \cup {Road(1, NumNodes)}

\* The road graphs loaded for route requests: every choice of roads of the
\* ring, of every kind
RingGraphs == UNION {[P -> EdgeKinds] : P \in SUBSET RingRoads}

\* The server is ready, a road graph is loaded, and a client is about to send
\* one request, possibly several times (search.repeated: it has been answered
\* more than once).
InitRoute ==
    /\ app_state = app_state_ready
    /\ env = [fault |-> "none", invalid |-> {}]
    /\ pc = "serving"
    /\ resp = NoResponse
    /\ calls = <<>>
    /\ log = {}
    /\ runs = 1
    /\ first_run = Readiness(app_state_ready)
    /\ variants = NoVariants
    /\ \E graph \in RingGraphs, r \in PointRequests :
          search = [loaded |-> TRUE, graph |-> graph, request |-> r, repeated |-> FALSE]

\* POST /route (main.py:360-401) for the client's request, answered from the
\* loaded graph; the previous response to it has been sent.
calculate_route_loaded ==
    /\ pc = "serving"
    /\ search.loaded
    /\ LET r == search.request
       IN  /\ RouteRequestModel(r)
           /\ app_state.initialized
           /\ \E elapsed \in Durations :
                 LET internal_request == RouteRequest(r)
                     result == RouteCalculator_calculate_route(search.graph,
                                                               internal_request, elapsed)
                 IN  /\ resp' = [handler |-> "calculate_route", status |-> 200,
                                 body |-> RouteResponseModel(result),
                                 request |-> Posted("/route", r)]
                     /\ calls' = <<[method |-> "calculate_route",
                                    request |-> internal_request]>>
    /\ search' = [search EXCEPT !.repeated = (resp.handler = "calculate_route")]
    /\ UNCHANGED <<app_state, env, pc, log, runs, first_run, variants>>

NextRoute == calculate_route_loaded

SpecRoute == InitRoute /\ [][NextRoute]_vars

(* ------------------------ graph builder: the costs --------------------- *)

\* longest edge, in metres
MaxLength == 2
\* largest effective speed of the base speed table
MaxSpeed == 2

\* normalized risk and normalized infrastructure quality, in percent of [0, 1]
Normalized == {0, 50, 100}

\* the calibration profiles the builder may be given: coefficients in percent,
\* an infrastructure bonus above 100 % included
Profiles ==
    [risk_coefficient : {0, 100, 200}, infrastructure_coefficient : {0, 50, 100, 150}]

\* RoadEdge attributes the builder may meet
RoadEdges ==
    [length : 0..MaxLength, speed : 1..MaxSpeed, risk : Normalized, quality : Normalized]

\* The graph builder is at work in initialize_system (main.py:190-206) on one
\* edge of the base graph, with the profile the calibration produced.
InitBuild ==
    /\ app_state = [app_state_initial EXCEPT !.crime_analyzer = Set,
                                             !.osm_analyzer = Set,
                                             !.calibrated_weights = Set]
    /\ env = [fault |-> "none", invalid |-> {}]
    /\ pc = "graph"
    /\ resp = NoResponse
    /\ calls = <<>>
    /\ log = {}
    /\ runs = 0
    /\ first_run = None
    /\ search = NoSearch
    /\ \E edge \in RoadEdges, profile \in Profiles :
          variants = [building |-> TRUE, edge |-> edge, profile |-> profile,
                      costs |-> <<>>]

\* GraphBuilder.build: the next variant, in the order of the route types,
\* receives its cost for the edge.
BuildVariant ==
    /\ variants.building
    /\ Len(variants.costs) < Len(valid_types)
    /\ LET route_type == valid_types[Len(variants.costs) + 1]
           e == variants.edge
       IN  variants' = [variants EXCEPT !.costs =
                           Append(@, [route_type |-> route_type,
                                      cost |-> WeightedCost(e.length, e.speed, e.risk,
                                                            e.quality, variants.profile,
                                                            route_type)])]
    /\ UNCHANGED <<app_state, env, pc, resp, calls, log, runs, first_run, search>>

NextBuild == BuildVariant

SpecBuild == InitBuild /\ [][NextBuild]_vars

(* ------------------------------ properties ---------------------------- *)

Guarded == {"calculate_route", "compare_routes", "get_system_stats"}

\* The message the except clause records for each fault.
FaultMessage(f) ==
    CASE f = "indy_missing" -> "indy_crime_data_not_found"
      [] f = "wl_missing" -> "wl_crime_data_not_found"
      [] f = "crime_raise" -> "crime_analysis_error"
      [] f = "osm_raise" -> "osm_analysis_error"
      [] f = "calibration_raise" -> "calibration_error"
      [] f \in {"network_none", "network_empty"} -> "no_valid_road_network"
      [] f = "build_raise" -> "graph_build_error"
      [] f = "validate_raise" -> "graph_validation_error"
      [] f = "rc_init_false" -> "route_calculator_init_failed"
      [] f = "rc_init_raise" -> "route_calculator_error"

\* initialize_system has returned (and the lifespan may have gone on)
InitReturned == pc \in {"returned", "serving", "stopped"}

\* C1: /route, /route/compare and /stats call a component only when
\* app_state['initialized'] is true; while it is false they answer 503 and call
\* nothing; and a request is answered only once initialize_system has returned.
C1_GuardedByInitialized ==
    /\ resp.handler \in Guarded =>
          /\ calls # <<>> => app_state.initialized
          /\ ~app_state.initialized =>
                /\ resp.status = 503
                /\ resp.body = "System not initialized"
                /\ calls = <<>>
    /\ resp.handler # "none" => pc = "serving" /\ runs >= 1

\* C1 witness: /route answered 503 on a system whose initialization failed
C1_Witness ==
    /\ resp.handler = "calculate_route"
    /\ resp.status = 503
    /\ ~app_state.initialized
    /\ calls = <<>>

\* C2: when a step of initialize_system fails, it returns without raising, the
\* server serves, initialized is false, startup_errors holds the failure's
\* message, and /health answers 'unhealthy' with those errors.
C2_FailedInitIsDegraded ==
    env.fault # "none" =>
        /\ pc # "crashed"
        /\ InitReturned =>
              /\ ~app_state.initialized
              /\ app_state.startup_errors = <<FaultMessage(env.fault)>>
        /\ resp.handler = "health_check" =>
              /\ resp.status = 200
              /\ resp.body.status = "unhealthy"
              /\ ~resp.body.initialized
              /\ resp.body.errors = <<FaultMessage(env.fault)>>

\* C2 witness: /health answered on a system whose calibration failed
C2_Witness ==
    /\ env.fault = "calibration_raise"
    /\ resp.handler = "health_check"
    /\ resp.body.status = "unhealthy"

InRange(v, lo, hi) == ~v.nan /\ lo <= v.v /\ v.v <= hi

\* The validity of a /route request as the specification states it.
WellFormed(r) ==
    /\ InRange(r.start_lat, -90, 90)
    /\ InRange(r.end_lat, -90, 90)
    /\ InRange(r.start_lon, -180, 180)
    /\ InRange(r.end_lon, -180, 180)
    /\ r.route_type \in RouteTypes
    /\ r.algorithm \in Algorithms

\* C5: every RouteRequest handed to RouteCalculator.calculate_route is within
\* the coordinate ranges and names a known route type and algorithm; a request
\* outside them is answered with a validation error, reaches no component, and
\* the step that rejects it leaves app_state unchanged.
C5_OnlyValidRequestsReachCalculator ==
    /\ [](/\ \A i \in DOMAIN calls :
                calls[i].method = "calculate_route" => WellFormed(calls[i].request)
          /\ resp.request.path = "/route" =>
                IF WellFormed([resp.request.json EXCEPT
                                  !.algorithm = AlgorithmField(@)])
                THEN resp.handler = "calculate_route"
                ELSE /\ resp.handler = "RouteRequestModel"
                     /\ resp.status = 422
                     /\ calls = <<>>)
    /\ [][resp'.handler = "RouteRequestModel" => app_state' = app_state]_vars

\* C5 witness: a request on the boundary (start latitude 90) reached the
\* calculator with the default algorithm
C5_Witness ==
    /\ resp.handler = "calculate_route"
    /\ resp.status = 200
    /\ resp.request.json.algorithm = None
    /\ calls[1].request.start_lat = Float(90)
    /\ calls[1].request.route_type = "safe_bike"
    /\ calls[1].request.algorithm = "dijkstra"

\* C6: invalid graph variants are only logged: with every other step
\* succeeding, the route calculator is stored, initialized becomes true and
\* startup_errors stays empty.
C6_InvalidVariantsDoNotAbort ==
    (env.invalid # {} /\ env.fault = "none" /\ InitReturned) =>
        /\ log = env.invalid
        /\ app_state.route_calculator = Set
        /\ app_state.initialized
        /\ app_state.startup_errors = <<>>

\* C6 witness: serving, initialized, with all four variants reported invalid
C6_Witness ==
    /\ env.invalid = RouteTypes
    /\ env.fault = "none"
    /\ pc = "serving"
    /\ app_state.initialized
    /\ log = RouteTypes

\* C7: when RouteCalculator.initialize returns false, the route_calculator slot
\* stays unset, initialized is false, exactly one message is in startup_errors
\* and no exception leaves initialize_system.
C7_InitializeFalseIsRecorded ==
    env.fault = "rc_init_false" =>
        /\ pc # "crashed"
        /\ app_state.route_calculator = None
        /\ ~app_state.initialized
        /\ InitReturned =>
              /\ Len(app_state.startup_errors) = 1
              /\ app_state.graph_builder = Set

\* C7 witness: serving after RouteCalculator.initialize returned false
C7_Witness ==
    /\ env.fault = "rc_init_false"
    /\ pc = "serving"
    /\ Len(app_state.startup_errors) = 1

\* C8 as stated: a second run of initialize_system under the same conditions
\* leaves the readiness (flag, startup_errors, health status) of the first.
C8_Idempotent ==
    (runs >= 2 /\ pc = "serving") => Readiness(app_state) = first_run

\* C9: once initialization has finished, no step of the serving process (any
\* of the five handlers, in any order) changes a field of app_state.
C9_HandlersLeaveAppState ==
    [][pc = "serving" => app_state' = app_state]_vars

\* C9 witness: /stats answered 200 after /health, /route or others ran before it
C9_Witness ==
    /\ resp.handler = "get_system_stats"
    /\ resp.status = 200
    /\ app_state.initialized
    /\ app_state.startup_errors = <<>>

C15_CompareCallsAreValid ==
    \A i \in DOMAIN calls :
        calls[i].method = "compare_routes" =>
            /\ calls[i].algorithm \in Algorithms
            /\ Range(calls[i].route_types) \subseteq RouteTypes

\* The five component slots in the order initialize_system stores them.
SlotOrder ==
    <<"crime_analyzer", "osm_analyzer", "calibrated_weights", "graph_builder",
      "route_calculator">>

\* How many slots are stored before the fault stops the try block.
StoredBefore(f) ==
    CASE f \in {"indy_missing", "wl_missing", "crime_raise"} -> 0
      [] f = "osm_raise" -> 1
      [] f = "calibration_raise" -> 2
      [] f \in {"network_none", "network_empty", "build_raise"} -> 3
      [] f \in {"validate_raise", "rc_init_false", "rc_init_raise"} -> 4
      [] f = "none" -> 5

\* C16: initialized implies that all five component slots are set; the slots
\* are stored in the order crime_analyzer, osm_analyzer, calibrated_weights,
\* graph_builder, route_calculator; a failing step leaves its own and every
\* later slot unset; and the flag is set only after the last slot is stored.
C16_SlotsInOrder ==
    /\ app_state.initialized =>
          /\ \A i \in DOMAIN SlotOrder : app_state[SlotOrder[i]] = Set
          /\ InitReturned
    /\ \A i \in DOMAIN SlotOrder :
          (i > 1 /\ app_state[SlotOrder[i]] = Set) => app_state[SlotOrder[i - 1]] = Set
    /\ InitReturned =>
          \A i \in DOMAIN SlotOrder :
              app_state[SlotOrder[i]] = Set <=> i <= StoredBefore(env.fault)

\* C16 witness: serving after graph building failed, with the first three
\* slots stored and the last two unset
C16_Witness ==
    /\ pc = "serving"
    /\ env.fault = "build_raise"
    /\ app_state.calibrated_weights = Set
    /\ app_state.graph_builder = None
    /\ app_state.route_calculator = None
    /\ ~app_state.initialized

\* C17: /health answers 'healthy' exactly when initialized is true and
\* startup_errors is empty; and once the start-up run of initialize_system has
\* returned, initialized is true exactly when startup_errors is empty.
C17_HealthyIffInitializedAndNoErrors ==
    /\ resp.handler = "health_check" =>
          (resp.body.status = "healthy"
              <=> (app_state.initialized /\ app_state.startup_errors = <<>>))
    /\ InitReturned =>
          (app_state.initialized <=> app_state.startup_errors = <<>>)

\* C17 witness: /health answered 'healthy' on an initialized system without errors
C17_Witness ==
    /\ resp.handler = "health_check"
    /\ resp.body.status = "healthy"
    /\ app_state.initialized
    /\ app_state.startup_errors = <<>>

RECURSIVE Component(_, _)
\* the nodes connected to those of S by roads of the graph
Component(graph, S) ==
    LET T == S \cup UNION {Neighbors(graph, n) : n \in S}
    IN  IF T = S THEN S ELSE Component(graph, T)

\* C12: when start and goal lie in disjoint connected components, the search
\* (with either algorithm) ends with the frontier empty after visiting the
\* start's whole component and never the goal, and the outcome is a
\* NoRouteFoundError result: an error message and no path.
C12_DisconnectedIsNoRoute ==
    search.loaded =>
        \A a \in Algorithms :
            LET r == search.results[a]
                reach == Component(search.graph, {search.start})
            IN  (r.status # "none" /\ search.goal \notin reach) =>
                    /\ r.status = "no_route"
                    /\ r.error_message = "NoRouteFoundError"
                    /\ r.path = <<>>
                    /\ r.node_count = Cardinality(reach)

\* C12 witness: A* has run from node 1 to node 3 on a graph whose only road
\* joins nodes 1 and 2, and reported no route
C12_Witness ==
    /\ search.loaded
    /\ DOMAIN search.graph = {<<1, 2>>}
    /\ search.start = 1
    /\ search.goal = 3
    /\ search.results["astar"].status = "no_route"

\* C13: in every variant the graph builder produces (fastest, safe, bike,
\* safe_bike) the edge's cost is strictly positive and at least the floor,
\* whatever the length, speed, normalized risk, normalized quality and
\* calibration coefficients.
C13_CostAtLeastFloor ==
    variants.building =>
        \A i \in DOMAIN variants.costs :
            /\ variants.costs[i].cost > 0
            /\ variants.costs[i].cost >= CostFloor

\* C13 witness: all four variants are built for an edge whose weighted cost
\* before the clamp is negative in bike and safe_bike (a bonus of 150 % on an
\* edge of full quality), and both of them carry the floor
C13_Witness ==
    /\ variants.building
    /\ Len(variants.costs) = Len(valid_types)
    /\ variants.edge = [length |-> 2, speed |-> 1, risk |-> 100, quality |-> 100]
    /\ variants.profile = [risk_coefficient |-> 200, infrastructure_coefficient |-> 150]
    /\ variants.costs[3] = [route_type |-> "bike", cost |-> CostFloor]
    /\ variants.costs[4] = [route_type |-> "safe_bike", cost |-> CostFloor]
    /\ variants.costs[1].cost > CostFloor

InSnapRange(lat, lon) ==
    \E n \in Nodes : Abs(lat.v) + Abs(lon.v - NodeX(n)) <= SnapThreshold

====
